---------------------------- MODULE Spec2Model ----------------------------
(***************************************************************************)
(* A model of the sqlcontroller package: the query builder                 *)
(* (sqlquerybuilder.py), the validator (sqlvalidator.py) and the parts of  *)
(* the controller (sqlcontroller.py) that assemble and execute statements. *)
(*                                                                         *)
(* Python strings are modelled as sequences of one-character strings, so   *)
(* that regular expressions, case folding and joining are computed the way *)
(* the code computes them.  Python values that may be of several types are *)
(* tagged records (PyStr, PyInt, PyBool, PyNone).  A call is one step: it  *)
(* records the operation, its arguments, what it returned or raised, and   *)
(* the statements it handed to the database driver.  The controller's      *)
(* connection and cursor, and the sqlite3 database behind them (the file   *)
(* and the connections opened on it), are state of their own.              *)
(***************************************************************************)
EXTENDS Integers, Sequences, FiniteSets, TLC

VARIABLES
    pc,        \* "call" while the call is pending, "done" once it has ended
    op,        \* the function or method called
    args,      \* its arguments
    ret,       \* Pending, then Return(value) or Raise(exception class)
    executed,  \* the statements the call handed to the cursor, in order, each
               \* with its bound parameters
    sql,       \* the controller object: its connection and cursor attributes
    sqlite     \* the database file and the connections opened on it

vars == <<pc, op, args, ret, executed, sql, sqlite>>

-----------------------------------------------------------------------------
(* Python values and call outcomes *)

PyStr(s) == [t |-> "str", s |-> s]
PyInt(n) == [t |-> "int", n |-> n]
PyBool(b) == [t |-> "bool", b |-> b]
PyNone == [t |-> "NoneType"]
PyTuple(items) == [t |-> "tuple", items |-> items]
PyDict(items) == [t |-> "dict", items |-> items]
PyBytes(s) == [t |-> "bytes", s |-> s]

Return(v) == [kind |-> "return", val |-> v]
Raise(e) == [kind |-> "raise", exc |-> e]
Pending == [kind |-> "pending"]

\* the value of sql and sqlite while a function that uses neither is called
NotUsed == [t |-> "not used"]

-----------------------------------------------------------------------------
(* Bounds of the model *)

MaxLimit == 10
MaxOffset == 3
MaxValues == 2
MaxFieldNames == 2
MaxNameLen == 3
MaxFieldNameLen == 2
MaxFields == 2
MaxConnections == 2
MaxRows == 3

-----------------------------------------------------------------------------
(* str methods and formatting *)

LowerLetters == <<"a","b","c","d","e","f","g","h","i","j","k","l","m","n","o","p","q","r","s","t","u","v","w","x","y","z">>
UpperLetters == <<"A","B","C","D","E","F","G","H","I","J","K","L","M","N","O","P","Q","R","S","T","U","V","W","X","Y","Z">>
DigitChars == <<"0","1","2","3","4","5","6","7","8","9">>

IndexIn(c, seq) == CHOOSE i \in 1..Len(seq) : seq[i] = c
IsIn(c, seq) == \E i \in 1..Len(seq) : seq[i] = c

chr_upper(c) == IF IsIn(c, LowerLetters) THEN UpperLetters[IndexIn(c, LowerLetters)] ELSE c
chr_lower(c) == IF IsIn(c, UpperLetters) THEN LowerLetters[IndexIn(c, UpperLetters)] ELSE c

str_upper(s) == [i \in 1..Len(s) |-> chr_upper(s[i])]

RECURSIVE str_nat(_)
str_nat(n) == IF n < 10 THEN <<DigitChars[n + 1]>>
              ELSE str_nat(n \div 10) \o <<DigitChars[(n % 10) + 1]>>

\* format(n) of an int inside an f-string
str_int(n) == IF n < 0 THEN <<"-">> \o str_nat(0 - n) ELSE str_nat(n)

RECURSIVE str_join(_, _)
str_join(sep, parts) ==
    IF parts = <<>> THEN <<>>
    ELSE IF Len(parts) = 1 THEN parts[1]
    ELSE parts[1] \o sep \o str_join(sep, Tail(parts))

(* Input generators: the tuples over S of length at most n, and the        *)
(* upper/lower-case spellings of a text                                    *)

RECURSIVE TuplesUpTo(_, _)
TuplesUpTo(S, n) ==
    IF n = 0 THEN {<<>>}
    ELSE LET shorter == TuplesUpTo(S, n - 1)
         IN  shorter \cup {Append(t, x) : t \in shorter, x \in S}

RECURSIVE CaseVariants(_)
CaseVariants(s) ==
    IF s = <<>> THEN {<<>>}
    ELSE {<<c>> \o r : c \in {chr_lower(Head(s)), chr_upper(Head(s))},
                       r \in CaseVariants(Tail(s))}

-----------------------------------------------------------------------------
(* sqlvalidator.py: the keyword sets and the character classes *)

math_comparison == {<<"=">>, <<"<",">">>, <<"!","=">>, <<"<">>, <<">">>, <<"<","=">>, <<">","=">>}
logic_comparison == {<<"B","E","T","W","E","E","N">>, <<"E","X","I","S","T","S">>, <<"I","N">>, <<"L","I","K","E">>}
types == {<<"N","U","L","L">>, <<"I","N","T","E","G","E","R">>, <<"R","E","A","L">>, <<"T","E","X","T">>, <<"B","L","O","B">>}
bool_operators == {<<"A","L","L">>, <<"A","N","D">>, <<"A","N","Y">>, <<"O","R">>, <<"N","O","T">>}
constraints == {<<"N","O","T"," ","N","U","L","L">>, <<"U","N","I","Q","U","E">>, <<"P","R","I","M","A","R","Y"," ","K","E","Y">>}

SeqRange(seq) == {seq[i] : i \in 1..Len(seq)}

\* [a-zA-Z0-9]
re_class_alnum == SeqRange(LowerLetters) \cup SeqRange(UpperLetters) \cup SeqRange(DigitChars)
\* \s of a str pattern: the whitespace characters (those TLA+ can write; the
\* vertical tab and the non-ASCII spaces are whitespace too)
re_class_s == {" ", "\t", "\n", "\r", "\f"}

alphanum == re_class_alnum
alphanum_underscore == re_class_alnum \cup {"_"}
alphanum_space == re_class_alnum \cup re_class_s
alphanum_underscore_space == re_class_alnum \cup re_class_s \cup {"_"}

\* the position reached by the greedy repetition of a character class from i
RECURSIVE re_match_class_star(_, _, _)
re_match_class_star(class, s, i) ==
    IF i <= Len(s) /\ s[i] \in class THEN re_match_class_star(class, s, i + 1) ELSE i

\* bool(re.fullmatch(r"[class]+", s)): one or more characters of the class, up
\* to the end of the string
re_fullmatch_class_any(class, s) == re_match_class_star(class, s, 1) = Len(s) + 1

re_fullmatch_class_plus(class, s) ==
    LET j == re_match_class_star(class, s, 1) IN j > 1 /\ j = Len(s) + 1

(* SqliteValidator: the boolean checks *)

\* hasattr(var, "__iter__")
valid_iterable(var) == var.t \in {"str", "bytes", "tuple", "list", "dict"}

valid_str(var) == var.t = "str"

valid_alphanum(name, underscore, space) ==
    LET pattern == IF underscore /\ space THEN alphanum_underscore_space
                   ELSE IF underscore THEN alphanum_underscore
                   ELSE IF space THEN alphanum_space
                   ELSE alphanum
    IN  name.t = "str" /\ re_fullmatch_class_plus(pattern, name.s)

valid_name_allow_space(field) == valid_alphanum(field, TRUE, TRUE)

valid_name(field) == valid_alphanum(field, TRUE, FALSE)

valid_type_casesensitive(name) == name.t = "str" /\ name.s \in types

valid_type(name) == name.t = "str" /\ str_upper(name.s) \in types

valid_constraint(name) == name.t = "str" /\ str_upper(name.s) \in constraints

\* comp_op.upper(): AttributeError when comp_op is not a str
valid_comparison_operator(comp_op) ==
    IF comp_op.t # "str" THEN Raise("AttributeError")
    ELSE Return(PyBool(str_upper(comp_op.s) \in (math_comparison \cup logic_comparison)))

valid_bool_operator(bool_op) ==
    IF bool_op.t # "str" THEN Raise("AttributeError")
    ELSE Return(PyBool(str_upper(bool_op.s) \in bool_operators))

(* SqliteValidator: the raising checks; each returns None or raises *)

validate_iterable(var) ==
    IF ~valid_iterable(var) THEN Raise("TypeError") ELSE Return(PyNone)

validate_str(var) ==
    IF ~valid_str(var) THEN Raise("TypeError") ELSE Return(PyNone)

validate_alphanum_without_str_check(str_, underscore, space) ==
    IF ~valid_alphanum(str_, underscore, space) THEN Raise("InvalidAlphanumericError")
    ELSE Return(PyNone)

validate_alphanum(str_, underscore, space) ==
    IF validate_str(str_).kind = "raise" THEN validate_str(str_)
    ELSE IF ~valid_alphanum(str_, underscore, space) THEN Raise("InvalidAlphanumericError")
    ELSE Return(PyNone)

validate_table_name(name) ==
    IF ~valid_name(name) THEN Raise("InvalidSqlNameError") ELSE Return(PyNone)

validate_field_name(field) ==
    IF ~valid_name(field) THEN Raise("InvalidSqlOperandError") ELSE Return(PyNone)

validate_type(name) ==
    IF validate_str(name).kind = "raise" THEN validate_str(name)
    ELSE IF ~valid_type(name) THEN Raise("InvalidSqlDataTypeError")
    ELSE Return(PyNone)

validate_constraint(name) ==
    IF validate_str(name).kind = "raise" THEN validate_str(name)
    ELSE LET upper == PyStr(str_upper(name.s))
         IN  IF ~valid_constraint(upper) THEN Raise("InvalidSqlDataConstraintError")
             ELSE Return(PyNone)

validate_comparison_operator(comp_op) ==
    LET valid == valid_comparison_operator(comp_op)
    IN  IF valid.kind = "raise" THEN valid
        ELSE IF ~valid.val.b THEN Raise("InvalidSqlOperatorError")
        ELSE Return(PyNone)

validate_bool_operator(bool_op) ==
    LET valid == valid_bool_operator(bool_op)
    IN  IF valid.kind = "raise" THEN valid
        ELSE IF ~valid.val.b THEN Raise("InvalidSqlOperatorError")
        ELSE Return(PyNone)

(* Field validation.  The Field type and valid_field / validate_field are   *)
(* not in the source (only their tests are); they are modelled from the     *)
(* specification: the identifier, type and each-constraint checks composed, *)
(* the failure being InvalidSqlFieldError.                                  *)

valid_field(field) ==
    /\ valid_name(field.name)
    /\ valid_type(field.type)
    /\ \A i \in 1..Len(field.constraints) : valid_constraint(field.constraints[i])

validate_field(field) ==
    IF ~valid_field(field) THEN Raise("InvalidSqlFieldError") ELSE Return(PyNone)

-----------------------------------------------------------------------------
(* SqliteQueryBuilder.build_query_clauses *)

\* re.IGNORECASE comparison of a subject character with a pattern literal
re_ignorecase_eq(c, p) == chr_lower(c) = chr_lower(p)

re_sub_prefix_casesensitive(pat, s) ==
    IF Len(s) >= Len(pat) /\ \A i \in 1..Len(pat) : s[i] = pat[i]
    THEN SubSeq(s, Len(pat) + 1, Len(s))
    ELSE s

\* re.sub("^" + pat, "", s, flags=re.IGNORECASE) for a literal pat: without
\* re.MULTILINE the anchor matches at the start of the string only, so at most
\* one occurrence is removed.
re_sub_prefix(pat, s) ==
    IF Len(s) >= Len(pat) /\ \A i \in 1..Len(pat) : re_ignorecase_eq(s[i], pat[i])
    THEN SubSeq(s, Len(pat) + 1, Len(s))
    ELSE s

build_query_clauses_limit_first(where, order, limit, offset) ==
    LET w == re_sub_prefix(<<"w","h","e","r","e"," ">>, where)
        o == re_sub_prefix(<<"o","r","d","e","r"," ","b","y"," ">>, order)
        p1 == IF limit # 0 THEN <<<<"l","i","m","i","t"," ">> \o str_int(limit) \o <<";">>>> ELSE <<>>
        p2 == IF w # <<>> THEN Append(p1, <<"w","h","e","r","e"," ">> \o w \o <<";">>) ELSE p1
        p3 == IF o # <<>> THEN Append(p2, <<"o","r","d","e","r"," ","b","y"," ">> \o o \o <<";">>) ELSE p2
        p4 == IF offset # 0 THEN Append(p3, <<"o","f","f","s","e","t"," ">> \o str_int(offset) \o <<";">>) ELSE p3
    IN  str_join(<<" ">>, p4)

build_query_clauses(where, order, limit, offset) ==
    LET w == re_sub_prefix(<<"w","h","e","r","e"," ">>, where)
        o == re_sub_prefix(<<"o","r","d","e","r"," ","b","y"," ">>, order)
        p1 == IF w # <<>> THEN <<<<"w","h","e","r","e"," ">> \o w \o <<";">>>> ELSE <<>>
        p2 == IF o # <<>> THEN Append(p1, <<"o","r","d","e","r"," ","b","y"," ">> \o o \o <<";">>) ELSE p1
        p3 == IF limit # 0 THEN Append(p2, <<"l","i","m","i","t"," ">> \o str_int(limit) \o <<";">>) ELSE p2
        p4 == IF offset # 0 THEN Append(p3, <<"o","f","f","s","e","t"," ">> \o str_int(offset) \o <<";">>) ELSE p3
    IN  str_join(<<" ">>, p4)

(* The inputs of the calls *)

WhereSpellings == CaseVariants(<<"w","h","e","r","e"," ">>)
OrderSpellings == CaseVariants(<<"o","r","d","e","r"," ","b","y"," ">>)

WhereTexts ==
    {p \o <<"a">> : p \in WhereSpellings}
    \cup {<<>>, <<"a">>, <<"n","a","m","e"," ","="," ","'","M","i","a","'">>, <<"w","h","e","r","e"," ">>, <<"W","H","E","R","E"," ">>,
          <<"w","h","e","r","e"," ","w","h","e","r","e"," ","a">>, <<"w","h","e","r","e","a">>, <<"a"," ","w","h","e","r","e"," ">>}

OrderTexts ==
    {p \o <<"a">> : p \in OrderSpellings}
    \cup {<<>>, <<"a">>, <<"a","g","e"," ","d","e","s","c">>, <<"o","r","d","e","r"," ","b","y"," ">>,
          <<"o","r","d","e","r"," ","b","y"," ","o","r","d","e","r"," ","b","y"," ","a">>, <<"o","r","d","e","r","b","y"," ","a">>}

Limits == {-1, 0, MaxLimit}
Offsets == {0, MaxOffset}

InitClauses ==
    /\ pc = "call"
    /\ op = "build_query_clauses"
    /\ args \in [where : WhereTexts, order : OrderTexts, limit : Limits, offset : Offsets]
    /\ ret = Pending
    /\ executed = <<>>
    /\ sql = NotUsed /\ sqlite = NotUsed

BuildQueryClauses ==
    /\ pc = "call" /\ op = "build_query_clauses"
    /\ ret' = Return(PyStr(build_query_clauses(args.where, args.order, args.limit, args.offset)))
    /\ pc' = "done"
    /\ UNCHANGED <<op, args, executed, sql, sqlite>>

NextClauses == BuildQueryClauses

SpecClauses == InitClauses /\ [][NextClauses]_vars

-----------------------------------------------------------------------------
(* Claims about build_query_clauses *)

HasWherePrefix(s) == Len(s) >= 6 /\ SubSeq(s, 1, 6) \in WhereSpellings
HasOrderPrefix(s) == Len(s) >= 9 /\ SubSeq(s, 1, 9) \in OrderSpellings

\* the condition / ordering text of an argument, a redundant prefix set aside
BareWhere(s) == IF HasWherePrefix(s) THEN SubSeq(s, 7, Len(s)) ELSE s
BareOrder(s) == IF HasOrderPrefix(s) THEN SubSeq(s, 10, Len(s)) ELSE s

\* the four parts in the fixed order where, order, limit, offset, each present
\* when its flag is set, with exactly one space between two parts
ClauseText(hasW, w, hasO, o, limit, offset) ==
    LET W == IF hasW THEN <<"w","h","e","r","e"," ">> \o w \o <<";">> ELSE <<>>
        O == IF hasO THEN <<"o","r","d","e","r"," ","b","y"," ">> \o o \o <<";">> ELSE <<>>
        L == IF limit # 0 THEN <<"l","i","m","i","t"," ">> \o str_int(limit) \o <<";">> ELSE <<>>
        F == IF offset # 0 THEN <<"o","f","f","s","e","t"," ">> \o str_int(offset) \o <<";">> ELSE <<>>
        sp(x, y) == IF x # <<>> /\ y # <<>> THEN <<" ">> ELSE <<>>
        OL == O \o sp(O, L) \o L
        OLF == OL \o sp(OL, F) \o F
    IN  W \o sp(W, OLF) \o OLF

\* C1 as stated: the where / order part is present if and only if the where /
\* order argument is non-empty, the limit / offset part if and only if the
\* number is non-zero; the parts come in the order where, order, limit, offset
\* with one space between them.
C1_PartPresentIffSourceNonEmpty ==
    pc = "done" /\ op = "build_query_clauses" =>
        ret = Return(PyStr(ClauseText(args.where # <<>>, BareWhere(args.where),
                                      args.order # <<>>, BareOrder(args.order),
                                      args.limit, args.offset)))

\* C1 as amended: the where / order part is present if and only if the argument
\* is non-empty once a redundant leading prefix is removed (an argument that is
\* only the prefix yields no part); everything else as stated.
C1_PartPresentIffBareNonEmpty ==
    pc = "done" /\ op = "build_query_clauses" =>
        ret = Return(PyStr(ClauseText(BareWhere(args.where) # <<>>, BareWhere(args.where),
                                      BareOrder(args.order) # <<>>, BareOrder(args.order),
                                      args.limit, args.offset)))

C1_Witness ==
    /\ pc = "done" /\ op = "build_query_clauses"
    /\ args.where = <<"w","h","e","r","e"," ">>
    /\ args.order = <<"a","g","e"," ","d","e","s","c">>
    /\ args.limit = MaxLimit
    /\ args.offset = MaxOffset
    /\ ret.val.s = <<"o","r","d","e","r"," ","b","y"," ","a","g","e"," ","d","e","s","c",";"," ","l","i","m","i","t"," ">> \o str_int(MaxLimit)
                   \o <<";"," ","o","f","f","s","e","t"," ">> \o str_int(MaxOffset) \o <<";">>

\* C2 as stated: a call whose where argument is p \o w and whose order argument
\* is q \o o, for any spelling p of "where " and q of "order by ", returns what
\* the call with w and o returns.
C2_PrefixInsensitive ==
    pc = "done" /\ op = "build_query_clauses" /\ HasWherePrefix(args.where) /\ HasOrderPrefix(args.order) =>
        ret = Return(PyStr(build_query_clauses(SubSeq(args.where, 7, Len(args.where)),
                                               SubSeq(args.order, 10, Len(args.order)),
                                               args.limit, args.offset)))

\* C2 as amended: the same, for a condition text w that does not itself begin
\* with a spelling of "where " and an ordering text o that does not itself
\* begin with a spelling of "order by ".
C2_PrefixInsensitiveOnBareTexts ==
    /\ pc = "done" /\ op = "build_query_clauses"
    /\ HasWherePrefix(args.where) /\ HasOrderPrefix(args.order)
    /\ ~HasWherePrefix(SubSeq(args.where, 7, Len(args.where)))
    /\ ~HasOrderPrefix(SubSeq(args.order, 10, Len(args.order)))
    => ret = Return(PyStr(build_query_clauses(SubSeq(args.where, 7, Len(args.where)),
                                              SubSeq(args.order, 10, Len(args.order)),
                                              args.limit, args.offset)))

C2_Witness ==
    /\ pc = "done" /\ op = "build_query_clauses"
    /\ args.where = <<"W","h","E","r","E"," ","a">>
    /\ args.order = <<"O","R","D","E","R"," ","b","y"," ","a">>
    /\ args.limit = 0 /\ args.offset = 0
    /\ ret.val.s = <<"w","h","e","r","e"," ","a",";"," ","o","r","d","e","r"," ","b","y"," ","a",";">>

-----------------------------------------------------------------------------
(* SqliteQueryBuilder.build_insert_query *)

\* sep.join(items) for a tuple of Python values: TypeError unless every item
\* is a str
py_join(sep, items) ==
    IF \E i \in 1..Len(items) : items[i].t # "str" THEN Raise("TypeError")
    ELSE Return(PyStr(str_join(sep, [i \in 1..Len(items) |-> items[i].s])))

RECURSIVE str_repeat(_, _)
str_repeat(item, n) == IF n = 0 THEN <<>> ELSE <<item>> \o str_repeat(item, n - 1)

\* The body of build_insert_query(fields).  "not fields" holds for None and for
\* an empty tuple; len(None) raises TypeError.
build_insert_query(fields) ==
    LET falsy == fields.t = "NoneType" \/ (fields.t = "tuple" /\ fields.items = <<>>)
        joined == IF falsy THEN Return(PyStr(<<>>)) ELSE py_join(<<",">>, fields.items)
    IN  IF joined.kind = "raise" THEN joined
        ELSE IF fields.t # "tuple" THEN Raise("TypeError")
        ELSE LET fields_str == IF falsy THEN <<>> ELSE <<"(">> \o joined.val.s \o <<")">>
                 qmarks == str_join(<<",">>, str_repeat(<<"?">>, Len(fields.items)))
             IN  Return(PyStr(<<"i","n","s","e","r","t"," ","i","n","t","o"," ","{","t","a","b","l","e","}"," ">> \o fields_str
                              \o <<" ","v","a","l","u","e","s"," ","(">> \o qmarks \o <<")",";">>))

\* A call build_insert_query(*argv): the function has the one positional
\* parameter `fields`, so any other number of arguments is a TypeError.
call_build_insert_query(argv) ==
    IF Len(argv) # 1 THEN Raise("TypeError") ELSE build_insert_query(argv[1])

ValueLists == {PyTuple(t) : t \in TuplesUpTo({PyStr(<<"J","o","e">>), PyStr(<<"M","i","a">>), PyInt(33)}, MaxValues)}
FieldNameLists == {PyTuple(t) : t \in TuplesUpTo({PyStr(<<"n","a","m","e">>), PyStr(<<"a","g","e">>)}, MaxFieldNames)}

\* The calls the repository makes: build_insert_query(values) (the tests, field
\* names omitted) and build_insert_query(values, fields) with fields a tuple of
\* names or None (SqliteTable.add_row, the tests).
InsertCalls ==
    {<<v>> : v \in ValueLists}
    \cup {<<v, f>> : v \in ValueLists, f \in FieldNameLists \cup {PyNone}}

InitInsert ==
    /\ pc = "call"
    /\ op = "build_insert_query"
    /\ args \in [argv : InsertCalls]
    /\ ret = Pending
    /\ executed = <<>>
    /\ sql = NotUsed /\ sqlite = NotUsed

BuildInsertQuery ==
    /\ pc = "call" /\ op = "build_insert_query"
    /\ ret' = call_build_insert_query(args.argv)
    /\ pc' = "done"
    /\ UNCHANGED <<op, args, executed, sql, sqlite>>

NextInsert == BuildInsertQuery

SpecInsert == InitInsert /\ [][NextInsert]_vars

(* Claims about build_insert_query *)

CountChar(s, c) == Cardinality({i \in 1..Len(s) : s[i] = c})

InsertValues(argv) == argv[1].items
FieldsGiven(argv) == Len(argv) = 2 /\ argv[2].t = "tuple" /\ argv[2].items # <<>>

\* C3: the call returns a query, and the number of "?" in it is the number of
\* values, whatever the field names given (or none).
C3_PlaceholdersEqualValues ==
    pc = "done" /\ op = "build_insert_query" =>
        /\ ret.kind = "return"
        /\ CountChar(ret.val.s, "?") = Len(InsertValues(args.argv))

\* C4: the call returns exactly "insert into {table} (f1,f2,...) values (?,...);"
\* when field names are given and "insert into {table} values (?,...);" when
\* they are omitted, with one "?" per value.
C4_InsertQueryText ==
    pc = "done" /\ op = "build_insert_query" =>
        LET names == IF FieldsGiven(args.argv)
                     THEN <<"(">> \o str_join(<<",">>, [i \in 1..Len(args.argv[2].items) |->
                                                        args.argv[2].items[i].s]) \o <<")"," ">>
                     ELSE <<>>
            qmarks == str_join(<<",">>, str_repeat(<<"?">>, Len(InsertValues(args.argv))))
        IN  ret = Return(PyStr(<<"i","n","s","e","r","t"," ","i","n","t","o"," ","{","t","a","b","l","e","}"," ">> \o names
                               \o <<"v","a","l","u","e","s"," ","(">> \o qmarks \o <<")",";">>))

-----------------------------------------------------------------------------
(* SqliteQueryBuilder.build_table_create_query and SqlController.create_table *)

\* A dict is modelled by its items in insertion order: a sequence of
\* [col, specs] with distinct keys col, specs being the tuple
\* (type, constraint, constraint, ...).

\* the index of the first constraint validate_constraint rejects, 0 if none
RECURSIVE first_rejected(_, _)
first_rejected(cons, i) ==
    IF i > Len(cons) THEN 0
    ELSE IF validate_constraint(cons[i]).kind = "raise" THEN i
    ELSE first_rejected(cons, i + 1)

parse_field_types_only(col, specs) ==
    IF validate_iterable(specs).kind = "raise" THEN validate_iterable(specs)
    ELSE IF specs.items = <<>> THEN Raise("IndexError")
    ELSE IF validate_type(Head(specs.items)).kind = "raise" THEN validate_type(Head(specs.items))
    ELSE Return(PyTuple(<<col>> \o specs.items))

\* parse_field of build_table_create_query: Return((col, type_, *constraints))
\* or the first error raised
parse_field(col, specs) ==
    IF validate_iterable(specs).kind = "raise" THEN validate_iterable(specs)
    ELSE IF specs.items = <<>> THEN Raise("IndexError")
    ELSE LET type_ == Head(specs.items)
             cons == Tail(specs.items)
             bad == first_rejected(cons, 1)
         IN  IF validate_type(type_).kind = "raise" THEN validate_type(type_)
             ELSE IF bad # 0 THEN validate_constraint(cons[bad])
             ELSE Return(PyTuple(<<col, type_>> \o cons))

\* parse_column of create_table: the same statements
parse_column(col, specs) ==
    IF validate_iterable(specs).kind = "raise" THEN validate_iterable(specs)
    ELSE IF specs.items = <<>> THEN Raise("IndexError")
    ELSE LET type_ == Head(specs.items)
             cons == Tail(specs.items)
             bad == first_rejected(cons, 1)
         IN  IF validate_type(type_).kind = "raise" THEN validate_type(type_)
             ELSE IF bad # 0 THEN validate_constraint(cons[bad])
             ELSE Return(PyTuple(<<col, type_>> \o cons))

\* [" ".join(parsed) for ...] over the outcomes of parse_field / parse_column
\* in the order of the items: the list of rendered fields, or the first error
\* raised (the list built so far is lost with it)
RECURSIVE render_items(_, _)
render_items(parsed, done) ==
    IF parsed = <<>> THEN Return(done)
    ELSE LET text == IF Head(parsed).kind = "raise" THEN Head(parsed)
                     ELSE py_join(<<" ">>, Head(parsed).val.items)
         IN  IF text.kind = "raise" THEN text
             ELSE render_items(Tail(parsed), Append(done, text.val.s))

RECURSIVE seq_reverse(_)
seq_reverse(q) == IF q = <<>> THEN <<>> ELSE Append(seq_reverse(Tail(q)), Head(q))

build_table_create_query_reversed(fields) ==
    LET fields_strs == render_items([i \in 1..Len(fields) |->
                          parse_field(seq_reverse(fields)[i].col, seq_reverse(fields)[i].specs)], <<>>)
    IN  IF fields_strs.kind = "raise" THEN fields_strs
        ELSE Return(PyStr(<<"c","r","e","a","t","e"," ","t","a","b","l","e"," ","i","f"," ","n","o","t"," ","e","x","i","s","t","s"," ","{","t","a","b","l","e","}"," ","(">>
                          \o str_join(<<","," ">>, fields_strs.val) \o <<")",";">>))

\* build_table_create_query(validator, fields), validator being the
\* SqliteValidator
build_table_create_query(fields) ==
    LET fields_strs == render_items([i \in 1..Len(fields) |->
                          parse_field(fields[i].col, fields[i].specs)], <<>>)
    IN  IF fields_strs.kind = "raise" THEN fields_strs
        ELSE Return(PyStr(<<"c","r","e","a","t","e"," ","t","a","b","l","e"," ","i","f"," ","n","o","t"," ","e","x","i","s","t","s"," ","{","t","a","b","l","e","}"," ","(">>
                          \o str_join(<<","," ">>, fields_strs.val) \o <<")",";">>))

\* the index of the first character of q that is in chars, 0 if none
find_first(q, chars) ==
    LET hits == {i \in 1..Len(q) : q[i] \in chars}
    IN  IF hits = {} THEN 0 ELSE CHOOSE i \in hits : \A j \in hits : i <= j

\* query.format(table=table): "{table}" is replaced by the table, "{{" and "}}"
\* by one brace; a lone brace raises ValueError, "{}" IndexError, any other
\* field name KeyError.  `done` is the text formatted so far.
\* The text still to format and the text formatted so far are bound as values
\* (text, out) before they are taken apart.
RECURSIVE str_format(_, _, _)
str_format(q, table, done) ==
    CHOOSE outcome \in
        {LET b == find_first(text, {"{", "}"})
             before == SubSeq(text, 1, b - 1)
             rest == SubSeq(text, b, Len(text))
             close == find_first(rest, {"}"})
         IN  IF b = 0 THEN Return(PyStr(out \o text))
             ELSE IF Len(rest) >= 2 /\ rest[2] = rest[1]
                 THEN str_format(SubSeq(rest, 3, Len(rest)), table, out \o before \o <<rest[1]>>)
             ELSE IF rest[1] = "}" \/ close = 0 THEN Raise("ValueError")
             ELSE IF close = 2 THEN Raise("IndexError")
             ELSE IF SubSeq(rest, 2, close - 1) # <<"t","a","b","l","e">> THEN Raise("KeyError")
             ELSE str_format(SubSeq(rest, close + 1, Len(rest)), table, out \o before \o table) :
         text \in {q}, out \in {done}} : TRUE

\* a statement handed to cursor.execute (many = FALSE, values the bound
\* parameters) or to cursor.executemany (many = TRUE, values the rows)
Statement(query, values, many) == [query |-> query, values |-> values, many |-> many]

\* _execute and _executemany without the check of the table name
prepare_unchecked(query, table, values, many) ==
    LET name == IF table.t = "str" THEN table.s ELSE <<"N","o","n","e">>
        formatted == str_format(query, name, <<>>)
    IN  IF formatted.kind = "raise" THEN [ret |-> formatted, executed |-> <<>>]
        ELSE [ret |-> Return(PyNone),
              executed |-> <<Statement(formatted.val.s, values, many)>>]

\* The part of _execute and _executemany before the driver is called: the
\* outcome and the statement to hand to the cursor, if any.
prepare(query, table, values, many) ==
    LET checked == validate_alphanum(table, TRUE, FALSE)
        formatted == str_format(query, table.s, <<>>)
    IN  IF checked.kind = "raise" THEN [ret |-> checked, executed |-> <<>>]
        ELSE IF formatted.kind = "raise" THEN [ret |-> formatted, executed |-> <<>>]
        ELSE [ret |-> Return(PyNone),
              executed |-> <<Statement(formatted.val.s, values, many)>>]

\* _BaseSqlController._execute(query, table, values) on an open cursor: the
\* outcome and the statement handed to cursor.execute.  What the driver
\* answers is not modelled here.
_execute(query, table, values) == prepare(query, table, values, FALSE)

\* _BaseSqlController._executemany(query, table, valuelists), likewise
_executemany(query, table, valuelists) == prepare(query, table, valuelists, TRUE)

\* SqlController.create_table(name, columns) inside an open context
create_table(name, columns) ==
    LET column_strs == render_items([i \in 1..Len(columns) |->
                          parse_column(columns[i].col, columns[i].specs)], <<>>)
    IN  IF column_strs.kind = "raise" THEN [ret |-> column_strs, executed |-> <<>>]
        ELSE _execute(<<"c","r","e","a","t","e"," ","t","a","b","l","e"," ","i","f"," ","n","o","t"," ","e","x","i","s","t","s"," ","{","t","a","b","l","e","}"," ","(">>
                      \o str_join(<<","," ">>, column_strs.val) \o <<")",";">>, name, PyTuple(<<>>))

ColNames == {PyStr(<<"n","a","m","e">>), PyStr(<<"a","g","e">>), PyStr(<<"a"," ","b">>)}
ColTypes == {PyStr(<<"I","n","t","e","g","e","r">>), PyStr(<<"j","s","o","n">>)}
ColConstraintLists ==
    {<<>>, <<PyStr(<<"p","r","i","m","a","r","y"," ","k","e","y">>)>>, <<PyStr(<<"n","o","t"," ","n","u","l","l">>), PyStr(<<"U","N","I","Q","U","E">>)>>,
     <<PyStr(<<"n","o","t","n","u","l","l">>)>>, <<PyStr(<<"u","n","i","q","u","e">>), PyStr(<<"P","R","I","M","A","R","Y","_","K","E","Y">>)>>}
DictItems ==
    {[col |-> c, specs |-> PyTuple(<<t>> \o cs)] :
        c \in ColNames, t \in ColTypes, cs \in ColConstraintLists}

RECURSIVE DictsUpTo(_)
DictsUpTo(n) ==
    IF n = 0 THEN {<<>>}
    ELSE LET shorter == DictsUpTo(n - 1)
         IN  shorter \cup {Append(d, it) : d \in shorter, it \in DictItems}

HasDistinctKeys(d) == \A i, j \in 1..Len(d) : d[i].col = d[j].col => i = j

FieldDicts == {d \in DictsUpTo(MaxFields) : HasDistinctKeys(d)}
TableNames == {PyStr(<<"T","e","s","t","T","a","b","l","e">>), PyStr(<<"_","i","n","v","a","l","i","d"," ","t","a","b","l","e"," ","n","a","m","e","_">>)}

InitCreate ==
    /\ pc = "call"
    /\ \/ /\ op = "build_table_create_query"
          /\ args \in [fields : FieldDicts]
       \/ /\ op = "create_table"
          /\ args \in [name : TableNames, columns : FieldDicts]
    /\ ret = Pending
    /\ executed = <<>>
    /\ sql = NotUsed /\ sqlite = NotUsed

BuildTableCreateQuery ==
    /\ pc = "call" /\ op = "build_table_create_query"
    /\ ret' = build_table_create_query(args.fields)
    /\ pc' = "done"
    /\ UNCHANGED <<op, args, executed, sql, sqlite>>

CreateTable ==
    /\ pc = "call" /\ op = "create_table"
    /\ ret' = create_table(args.name, args.columns).ret
    /\ executed' = create_table(args.name, args.columns).executed
    /\ pc' = "done"
    /\ UNCHANGED <<op, args, sql, sqlite>>

NextCreate == BuildTableCreateQuery \/ CreateTable

SpecCreate == InitCreate /\ [][NextCreate]_vars

-----------------------------------------------------------------------------
(* Calls of the validator *)

NameAlphabet == {"a", "Z", "0", "_", " ", "\t", "%"}
NonStrings == {PyInt(3), PyNone}

AlphanumNames == {PyStr(s) : s \in TuplesUpTo(NameAlphabet, MaxNameLen)} \cup NonStrings

Keywords == math_comparison \cup logic_comparison \cup types \cup bool_operators \cup constraints
NearMisses == {<<>>, <<"T","E","X","T",".">>, <<" ","T","E","X","T">>, <<"H","e","l","l","o">>, <<"j","s","o","n">>, <<"n","o","t","n","u","l","l">>, <<"N","O","T"," "," ","N","U","L","L">>,
               <<"P","R","I","M","A","R","Y","_","K","E","Y">>, <<"p","r","i","m","a","r","y">>, <<"s","a","m","e","a","s">>, <<"l","o","o","k","s","l","i","k","e">>, <<"=","=">>, <<"x","o","r">>}
KeywordTexts ==
    {PyStr(s) : s \in UNION {CaseVariants(k) : k \in Keywords}}
    \cup {PyStr(s) : s \in NearMisses} \cup NonStrings

FieldNames == {PyStr(s) : s \in TuplesUpTo(NameAlphabet, MaxFieldNameLen)}
FieldTypes == {PyStr(s) : s \in {<<"t","e","x","t">>, <<"t","E","x","T">>, <<"N","U","L","L">>, <<"s","t","r","i","n","g">>, <<"T","E","X","T",".">>}}
ConstraintLists ==
    {<<>>, <<PyStr(<<"p","r","i","m","a","r","y"," ","k","e","y">>)>>, <<PyStr(<<"n","o","t"," ","n","u","l","l">>), PyStr(<<"U","N","I","Q","U","E">>)>>,
     <<PyStr(<<"U","n","i","q","u","e">>), PyStr(<<"N","o","t"," ","N","u","l","l">>)>>, <<PyStr(<<"n","o","t","n","u","l","l">>)>>,
     <<PyStr(<<"u","n","i","q","u","e">>), PyStr(<<"P","R","I","M","A","R","Y","_","K","E","Y">>)>>}
Fields == [name : FieldNames, type : FieldTypes, constraints : ConstraintLists]

\* what validate_iterable is called with: iterables and scalars
IterableArgs ==
    {PyStr(<<>>), PyStr(<<"a","b","c">>), PyBytes(<<"x">>), PyTuple(<<>>), PyTuple(<<PyInt(1)>>),
     PyDict(<<>>), PyInt(3), PyInt(0), PyBool(TRUE), PyNone}

AlphanumOps == {"valid_alphanum", "validate_alphanum"}
NameOps == {"valid_name", "validate_table_name", "validate_field_name"}
KeywordCheckOps == {"valid_type", "valid_constraint",
                    "valid_comparison_operator", "valid_bool_operator"}
IterableOps == {"valid_iterable", "validate_iterable"}
KeywordOps == {"validate_type", "validate_constraint",
               "validate_comparison_operator", "validate_bool_operator"}
FieldOps == {"valid_field", "validate_field"}

InitValidator ==
    /\ pc = "call"
    /\ \/ /\ op \in AlphanumOps
          /\ args \in [name : AlphanumNames, underscore : BOOLEAN, space : BOOLEAN]
       \/ /\ op \in KeywordOps
          /\ args \in [name : KeywordTexts]
       \/ /\ op \in FieldOps
          /\ args \in [field : Fields]
       \/ /\ op \in NameOps
          /\ args \in [name : AlphanumNames]
       \/ /\ op \in KeywordCheckOps
          /\ args \in [name : KeywordTexts]
       \/ /\ op \in IterableOps
          /\ args \in [var : IterableArgs]
       \/ /\ op = "_execute"
          /\ args \in [query : {<<"s","e","l","e","c","t"," ","*"," ","f","r","o","m"," ","{","t","a","b","l","e","}">>}, table : AlphanumNames,
                       values : {PyTuple(<<>>)}]
    /\ ret = Pending
    /\ executed = <<>>
    /\ sql = NotUsed /\ sqlite = NotUsed

Finish(outcome) ==
    /\ ret' = outcome
    /\ pc' = "done"
    /\ UNCHANGED <<op, args, executed, sql, sqlite>>

ValidAlphanum ==
    /\ pc = "call" /\ op = "valid_alphanum"
    /\ Finish(Return(PyBool(valid_alphanum(args.name, args.underscore, args.space))))

ValidateAlphanum ==
    /\ pc = "call" /\ op = "validate_alphanum"
    /\ Finish(validate_alphanum(args.name, args.underscore, args.space))

ValidateType ==
    /\ pc = "call" /\ op = "validate_type"
    /\ Finish(validate_type(args.name))

ValidateConstraint ==
    /\ pc = "call" /\ op = "validate_constraint"
    /\ Finish(validate_constraint(args.name))

ValidateComparisonOperator ==
    /\ pc = "call" /\ op = "validate_comparison_operator"
    /\ Finish(validate_comparison_operator(args.name))

ValidateBoolOperator ==
    /\ pc = "call" /\ op = "validate_bool_operator"
    /\ Finish(validate_bool_operator(args.name))

ValidField ==
    /\ pc = "call" /\ op = "valid_field"
    /\ Finish(Return(PyBool(valid_field(args.field))))

ValidateField ==
    /\ pc = "call" /\ op = "validate_field"
    /\ Finish(validate_field(args.field))

ValidName ==
    /\ pc = "call" /\ op = "valid_name"
    /\ Finish(Return(PyBool(valid_name(args.name))))

ValidateTableName ==
    /\ pc = "call" /\ op = "validate_table_name"
    /\ Finish(validate_table_name(args.name))

ValidateFieldName ==
    /\ pc = "call" /\ op = "validate_field_name"
    /\ Finish(validate_field_name(args.name))

ValidType ==
    /\ pc = "call" /\ op = "valid_type"
    /\ Finish(Return(PyBool(valid_type(args.name))))

ValidConstraint ==
    /\ pc = "call" /\ op = "valid_constraint"
    /\ Finish(Return(PyBool(valid_constraint(args.name))))

ValidComparisonOperator ==
    /\ pc = "call" /\ op = "valid_comparison_operator"
    /\ Finish(valid_comparison_operator(args.name))

ValidBoolOperator ==
    /\ pc = "call" /\ op = "valid_bool_operator"
    /\ Finish(valid_bool_operator(args.name))

ValidIterable ==
    /\ pc = "call" /\ op = "valid_iterable"
    /\ Finish(Return(PyBool(valid_iterable(args.var))))

ValidateIterable ==
    /\ pc = "call" /\ op = "validate_iterable"
    /\ Finish(validate_iterable(args.var))

\* _execute on a table name, up to the statement it hands to the cursor
ExecuteOnTable ==
    /\ pc = "call" /\ op = "_execute"
    /\ ret' = _execute(args.query, args.table, args.values).ret
    /\ executed' = _execute(args.query, args.table, args.values).executed
    /\ pc' = "done"
    /\ UNCHANGED <<op, args, sql, sqlite>>

NextValidator ==
    \/ ValidAlphanum
    \/ ValidateAlphanum
    \/ ValidateType
    \/ ValidateConstraint
    \/ ValidateComparisonOperator
    \/ ValidateBoolOperator
    \/ ValidField
    \/ ValidateField
    \/ ValidName
    \/ ValidateTableName
    \/ ValidateFieldName
    \/ ValidType
    \/ ValidConstraint
    \/ ValidComparisonOperator
    \/ ValidBoolOperator
    \/ ValidIterable
    \/ ValidateIterable
    \/ ExecuteOnTable

SpecValidator == InitValidator /\ [][NextValidator]_vars

(* Claims about the validator *)

IsLetterOrDigit(c) == IsIn(c, LowerLetters) \/ IsIn(c, UpperLetters) \/ IsIn(c, DigitChars)

\* s matches [A-Za-z0-9_]+
IdentifierGrammar(s) == Len(s) >= 1 /\ \A i \in 1..Len(s) : IsLetterOrDigit(s[i]) \/ s[i] = "_"

\* the spellings of the keywords of each fixed set, in any mix of cases
TypeSpellings == UNION {CaseVariants(k) : k \in {<<"N","U","L","L">>, <<"I","N","T","E","G","E","R">>, <<"R","E","A","L">>, <<"T","E","X","T">>, <<"B","L","O","B">>}}
ConstraintSpellings == UNION {CaseVariants(k) : k \in {<<"N","O","T"," ","N","U","L","L">>, <<"U","N","I","Q","U","E">>, <<"P","R","I","M","A","R","Y"," ","K","E","Y">>}}
ComparisonSpellings ==
    UNION {CaseVariants(k) : k \in {<<"=">>, <<"<",">">>, <<"!","=">>, <<"<">>, <<">">>, <<"<","=">>, <<">","=">>,
                                    <<"B","E","T","W","E","E","N">>, <<"E","X","I","S","T","S">>, <<"I","N">>, <<"L","I","K","E">>}}
BoolSpellings == UNION {CaseVariants(k) : k \in {<<"A","L","L">>, <<"A","N","D">>, <<"A","N","Y">>, <<"O","R">>, <<"N","O","T">>}}

\* The outcome of a call: a raising check returns None or raises err, a
\* boolean check returns the boolean.
Verdict(raising, ok, err) ==
    IF raising THEN (IF ok THEN Return(PyNone) ELSE Raise(err)) ELSE Return(PyBool(ok))

\* C8: validate_field succeeds exactly when the name matches [A-Za-z0-9_]+, the
\* type is case-insensitively one of the five types and every constraint is
\* case-insensitively one of the three constraints; otherwise it fails with
\* InvalidSqlFieldError, and valid_field returns the matching boolean.
C8_FieldValidation ==
    pc = "done" /\ op \in FieldOps =>
        LET f == args.field
            ok == /\ IdentifierGrammar(f.name.s)
                  /\ f.type.s \in TypeSpellings
                  /\ \A i \in 1..Len(f.constraints) : f.constraints[i].s \in ConstraintSpellings
        IN  ret = Verdict(op = "validate_field", ok, "InvalidSqlFieldError")

C8_Witness ==
    /\ pc = "done" /\ op = "validate_field"
    /\ args.field.name.s = <<"a","_">>
    /\ args.field.type.s = <<"t","E","x","T">>
    /\ Len(args.field.constraints) = 2
    /\ ret = Return(PyNone)

\* C9: a string is accepted if and only if it is a non-empty run of characters
\* of the class the flags select: letters and digits, plus the underscore when
\* `underscore` is set, plus the space character when `space` is set; any
\* other string is rejected with InvalidAlphanumericError (valid_alphanum
\* returns the matching boolean).
C9_AlphanumClass ==
    pc = "done" /\ op \in AlphanumOps /\ args.name.t = "str" =>
        LET s == args.name.s
            InClass(c) == \/ IsLetterOrDigit(c)
                          \/ (args.underscore /\ c = "_")
                          \/ (args.space /\ c = " ")
            ok == Len(s) >= 1 /\ \A i \in 1..Len(s) : InClass(s[i])
        IN  ret = Verdict(op = "validate_alphanum", ok, "InvalidAlphanumericError")

IsKeywordFor(o, s) ==
    CASE o = "validate_type" -> s \in TypeSpellings
      [] o = "validate_constraint" -> s \in ConstraintSpellings
      [] o = "validate_comparison_operator" -> s \in ComparisonSpellings
      [] o = "validate_bool_operator" -> s \in BoolSpellings

KeywordErrorOf(o) ==
    CASE o = "validate_type" -> "InvalidSqlDataTypeError"
      [] o = "validate_constraint" -> "InvalidSqlDataConstraintError"
      [] o = "validate_comparison_operator" -> "InvalidSqlOperatorError"
      [] o = "validate_bool_operator" -> "InvalidSqlOperatorError"

\* C10: each of the four keyword validators accepts a string if and only if it
\* is, case-insensitively, in that validator's fixed set, and rejects every
\* other string with that validator's error.
C10_KeywordWhitelist ==
    pc = "done" /\ op \in KeywordOps /\ args.name.t = "str" =>
        ret = Verdict(TRUE, IsKeywordFor(op, args.name.s), KeywordErrorOf(op))

C10_Witness ==
    /\ pc = "done" /\ op = "validate_constraint"
    /\ args.name = PyStr(<<"P","R","I","M","A","R","Y","_","K","E","Y">>)
    /\ ret = Raise("InvalidSqlDataConstraintError")

-----------------------------------------------------------------------------
(* Claims about build_table_create_query and create_table *)

FieldsOf(o, a) == IF o = "create_table" THEN a.columns ELSE a.fields

NameIsValid(item) == IdentifierGrammar(item.col.s)
TypeIsValid(item) == Head(item.specs.items).s \in TypeSpellings
ConstraintsAreValid(item) ==
    \A i \in 2..Len(item.specs.items) : item.specs.items[i].s \in ConstraintSpellings

\* "<name> <type> <constraint1> <constraint2> ...", the tokens as written
FieldText(item) ==
    str_join(<<" ">>, <<item.col.s>> \o [i \in 1..Len(item.specs.items) |-> item.specs.items[i].s])

C6_FieldNamesValidated ==
    /\ pc = "done" /\ op \in {"build_table_create_query", "create_table"}
    /\ \E i \in 1..Len(FieldsOf(op, args)) : ~NameIsValid(FieldsOf(op, args)[i])
    => ret.kind = "raise" /\ executed = <<>>

\* C7: when some field, at any position, has a type or a constraint outside
\* the fixed sets, build_table_create_query raises InvalidSqlDataTypeError or
\* InvalidSqlDataConstraintError and returns nothing.
C7_InvalidFieldAborts ==
    /\ pc = "done" /\ op = "build_table_create_query"
    /\ \E i \in 1..Len(args.fields) :
            ~TypeIsValid(args.fields[i]) \/ ~ConstraintsAreValid(args.fields[i])
    => ret \in {Raise("InvalidSqlDataTypeError"), Raise("InvalidSqlDataConstraintError")}

C7_Witness ==
    /\ pc = "done" /\ op = "build_table_create_query"
    /\ Len(args.fields) = 2
    /\ TypeIsValid(args.fields[1]) /\ ConstraintsAreValid(args.fields[1])
    /\ args.fields[2].specs.items = <<PyStr(<<"I","n","t","e","g","e","r">>), PyStr(<<"u","n","i","q","u","e">>), PyStr(<<"P","R","I","M","A","R","Y","_","K","E","Y">>)>>
    /\ ret = Raise("InvalidSqlDataConstraintError")

-----------------------------------------------------------------------------
(* valid_values, validate_values and validate_condition *)

\* float(x) for a str or bytes argument, on texts made of a sign, digits and
\* the decimal point: an optional sign, then digits with at most one point
\* and at least one digit.
float_literal(s) ==
    LET body == IF s # <<>> /\ s[1] \in {"+", "-"} THEN Tail(s) ELSE s
    IN  /\ \A i \in 1..Len(body) : IsIn(body[i], DigitChars) \/ body[i] = "."
        /\ Cardinality({i \in 1..Len(body) : body[i] = "."}) <= 1
        /\ \E i \in 1..Len(body) : IsIn(body[i], DigitChars)

\* float(x): the number (not represented), ValueError for a text that is not
\* a number, TypeError for a value that is neither a number nor a text.
py_float(x) ==
    IF x.t \in {"int", "bool"} THEN Return(x)
    ELSE IF x.t \in {"str", "bytes"}
         THEN (IF float_literal(x.s) THEN Return(x) ELSE Raise("ValueError"))
    ELSE Raise("TypeError")

is_numeric(num) ==
    LET parsed == py_float(num)
    IN  IF parsed.kind = "return" THEN Return(PyBool(TRUE))
        ELSE IF parsed.exc = "ValueError" THEN Return(PyBool(FALSE))
        ELSE parsed

\* is_valid without its except clause
is_valid_uncaught(val) ==
    IF val.t = "str" THEN Return(PyBool(TRUE)) ELSE is_numeric(val)

is_valid(val) ==
    LET tried == IF val.t = "str" THEN Return(PyBool(TRUE)) ELSE is_numeric(val)
    IN  IF tried.kind = "raise" /\ tried.exc = "TypeError" THEN Return(PyBool(FALSE))
        ELSE tried

\* iter(x): the elements a Python loop over x visits, or TypeError
py_iter(x) ==
    IF x.t \in {"tuple", "list"} THEN Return(x.items)
    ELSE IF x.t = "str" THEN Return([i \in 1..Len(x.s) |-> PyStr(<<x.s[i]>>)])
    ELSE IF x.t = "dict" THEN Return([i \in 1..Len(x.items) |-> x.items[i][1]])
    ELSE Raise("TypeError")

\* all(map(is_valid, values)): stops at the first element that is not valid
valid_values(values) ==
    LET elems == py_iter(values)
    IN  IF elems.kind = "raise" THEN elems
        ELSE LET checked == [i \in 1..Len(elems.val) |-> is_valid(elems.val[i])]
                 stops == {i \in 1..Len(checked) :
                              checked[i].kind = "raise" \/ ~checked[i].val.b}
             IN  IF stops = {} THEN Return(PyBool(TRUE))
                 ELSE LET first == CHOOSE i \in stops : \A j \in stops : i <= j
                      IN  IF checked[first].kind = "raise" THEN checked[first]
                          ELSE Return(PyBool(FALSE))

validate_values(values) ==
    LET valid == valid_values(values)
    IN  IF valid.kind = "raise" THEN valid
        ELSE IF ~valid.val.b THEN Raise("InvalidSqlOperandError")
        ELSE Return(PyNone)

validate_condition_values_first(field, operator, values) ==
    IF validate_values(values).kind = "raise" THEN validate_values(values)
    ELSE IF validate_field_name(field).kind = "raise" THEN validate_field_name(field)
    ELSE validate_comparison_operator(operator)

validate_condition(field, operator, values) ==
    IF validate_field_name(field).kind = "raise" THEN validate_field_name(field)
    ELSE IF validate_comparison_operator(operator).kind = "raise"
         THEN validate_comparison_operator(operator)
    ELSE validate_values(values)

(* The calls: value lists of the kinds the tests pass (strings, numbers, a  *)
(* dict, None, nested tuples, bytes), and values that cannot be iterated    *)

ValueElements ==
    {PyStr(<<"J","o","e">>), PyStr(<<"1",".","5">>), PyStr(<<>>), PyInt(33), PyBool(TRUE), PyNone,
     PyDict(<<>>), PyDict(<<<<PyStr(<<"a">>), PyInt(1)>>>>), PyTuple(<<PyInt(1)>>),
     PyBytes(<<"1","2">>), PyBytes(<<"-",".","5">>), PyBytes(<<"x">>), PyBytes(<<"1",".","2",".","3">>)}

ConditionValues ==
    {PyTuple(t) : t \in TuplesUpTo(ValueElements, MaxValues)}
    \cup {PyStr(<<"J","o","e">>), PyDict(<<<<PyStr(<<"a">>), PyInt(1)>>>>), PyInt(3), PyNone}

ConditionFields ==
    {PyStr(<<"n","a","m","e">>), PyStr(<<"M","y"," ","n","a","m","e">>), PyStr(<<"a","_","1">>), PyStr(<<>>), PyInt(3)}

ConditionOperators ==
    {PyStr(<<"=">>), PyStr(<<"i","n">>), PyStr(<<"L","i","k","e">>), PyStr(<<"l","o","o","k","s","l","i","k","e">>), PyStr(<<"=","=">>)}

ValuesOps == {"valid_values", "validate_values"}

InitCondition ==
    /\ pc = "call"
    /\ \/ /\ op \in ValuesOps
          /\ args \in [values : ConditionValues]
       \/ /\ op = "validate_condition"
          /\ args \in [field : ConditionFields, operator : ConditionOperators,
                       values : ConditionValues]
    /\ ret = Pending
    /\ executed = <<>>
    /\ sql = NotUsed /\ sqlite = NotUsed

ValidValues ==
    /\ pc = "call" /\ op = "valid_values"
    /\ Finish(valid_values(args.values))

ValidateValues ==
    /\ pc = "call" /\ op = "validate_values"
    /\ Finish(validate_values(args.values))

ValidateCondition ==
    /\ pc = "call" /\ op = "validate_condition"
    /\ Finish(validate_condition(args.field, args.operator, args.values))

NextCondition ==
    \/ ValidValues
    \/ ValidateValues
    \/ ValidateCondition

SpecCondition == InitCondition /\ [][NextCondition]_vars

(* Claims about validate_values and validate_condition *)

\* a string, or a numeric scalar: a number, or bytes that spell one
IsStringOrNumericScalar(v) ==
    \/ v.t \in {"str", "int", "bool"}
    \/ v.t = "bytes" /\ float_literal(v.s)

IsIterable(v) == v.t \in {"tuple", "list", "str", "dict"}

ElementsOf(v) ==
    IF v.t = "str" THEN {PyStr(<<v.s[i]>>) : i \in 1..Len(v.s)}
    ELSE IF v.t = "dict" THEN {v.items[i][1] : i \in 1..Len(v.items)}
    ELSE {v.items[i] : i \in 1..Len(v.items)}

ValuesOutcome(v) ==
    IF ~IsIterable(v) THEN Raise("TypeError")
    ELSE IF \A e \in ElementsOf(v) : IsStringOrNumericScalar(e) THEN Return(PyNone)
    ELSE Raise("InvalidSqlOperandError")

\* C11: validate_values(values) succeeds if and only if every element of
\* values is a string or a numeric scalar; with an element of any other kind
\* (a dict, None, a nested tuple, bytes that are not a number) it fails with
\* InvalidSqlOperandError; if values is not iterable it fails with TypeError.
C11_ValuesShape ==
    pc = "done" /\ op = "validate_values" => ret = ValuesOutcome(args.values)

C11_Witness ==
    /\ pc = "done" /\ op = "validate_values"
    /\ args.values = PyTuple(<<PyStr(<<"J","o","e">>), PyDict(<<<<PyStr(<<"a">>), PyInt(1)>>>>)>>)
    /\ ret = Raise("InvalidSqlOperandError")

\* C12: validate_condition checks the field name, then the comparison
\* operator, then the values, and raises the error of the earliest check that
\* fails: InvalidSqlOperandError for an invalid field whatever the operator,
\* InvalidSqlOperatorError for a valid field with an invalid operator whatever
\* the values, the outcome of the values check otherwise; it returns None only
\* when all three pass.
C12_ConditionOrder ==
    pc = "done" /\ op = "validate_condition" =>
        LET fieldOk == args.field.t = "str" /\ IdentifierGrammar(args.field.s)
            operatorOk == args.operator.s \in ComparisonSpellings
        IN  ret = IF ~fieldOk THEN Raise("InvalidSqlOperandError")
                  ELSE IF ~operatorOk THEN Raise("InvalidSqlOperatorError")
                  ELSE ValuesOutcome(args.values)

C12_Witness ==
    /\ pc = "done" /\ op = "validate_condition"
    /\ args.field = PyStr(<<"n","a","m","e">>)
    /\ args.operator = PyStr(<<"l","o","o","k","s","l","i","k","e">>)
    /\ args.values = PyInt(3)
    /\ ret = Raise("InvalidSqlOperatorError")

-----------------------------------------------------------------------------
(* SqlController: the row operations, up to the statement they hand to the *)
(* cursor                                                                   *)

\* format(v) of a value inside an f-string
py_str(v) ==
    CASE v.t = "str" -> v.s
      [] v.t = "int" -> str_int(v.n)
      [] v.t = "bool" -> (IF v.b THEN <<"T","r","u","e">> ELSE <<"F","a","l","s","e">>)
      [] v.t = "NoneType" -> <<"N","o","n","e">>

\* "not x" for the values given as columns; len(x)
py_falsy(x) ==
    \/ x.t = "NoneType"
    \/ x.t \in {"tuple", "list", "dict"} /\ x.items = <<>>
    \/ x.t = "str" /\ x.s = <<>>

py_len(x) ==
    IF x.t \in {"tuple", "list", "dict"} THEN Return(PyInt(Len(x.items)))
    ELSE IF x.t = "str" THEN Return(PyInt(Len(x.s)))
    ELSE Raise("TypeError")

_build_add_query(values, columns) ==
    LET joined == IF py_falsy(columns) THEN Return(PyStr(<<>>))
                  ELSE IF columns.t \notin {"tuple", "list"} THEN Raise("TypeError")
                  ELSE py_join(<<",">>, columns.items)
        count == py_len(values)
    IN  IF joined.kind = "raise" THEN joined
        ELSE IF count.kind = "raise" THEN count
        ELSE LET column_str == IF py_falsy(columns) THEN <<>>
                               ELSE <<"(">> \o joined.val.s \o <<")">>
                 qmarks == str_join(<<",">>, str_repeat(<<"?">>, count.val.n))
             IN  Return(PyStr(<<"i","n","s","e","r","t"," ","i","n","t","o"," ","{","t","a","b","l","e","}">> \o column_str
                              \o <<" ","v","a","l","u","e","s"," ","(">> \o qmarks \o <<")">>))

add_row(table, values, columns) ==
    LET query == _build_add_query(values, columns)
    IN  IF query.kind = "raise" THEN [ret |-> query, executed |-> <<>>]
        ELSE _execute(query.val.s, table, values)

add_rows(table, valuelists, columns) ==
    LET query == _build_add_query(valuelists, columns)
    IN  IF query.kind = "raise" THEN [ret |-> query, executed |-> <<>>]
        ELSE _executemany(query.val.s, table, valuelists)

\* get_row and get_rows build and execute the same statement; the fetchone or
\* fetchall that follows is the driver's answer
get_row(table, where_clause) ==
    _execute(<<"s","e","l","e","c","t"," ","*"," ","f","r","o","m"," ","{","t","a","b","l","e","}"," ","w","h","e","r","e"," ">> \o where_clause.s, table, PyTuple(<<>>))

get_rows(table, where_clause) ==
    _execute(<<"s","e","l","e","c","t"," ","*"," ","f","r","o","m"," ","{","t","a","b","l","e","}"," ","w","h","e","r","e"," ">> \o where_clause.s, table, PyTuple(<<>>))

\* a parameter the caller gives no argument for
Omitted == [t |-> "omitted"]

\* where_clause and order have no default: a call without one of them is a
\* TypeError before the body runs
update_rows(table, values, where_clause, order, limit, offset) ==
    LET values_str == str_join(<<",">>,
            [i \in 1..Len(values.items) |->
                py_str(values.items[i][1]) \o <<" ","="," ">> \o py_str(values.items[i][2])])
        query == <<"u","p","d","a","t","e"," ","{","t","a","b","l","e","}"," ","s","e","t"," ">> \o values_str
                 \o <<" ","w","h","e","r","e"," ">> \o where_clause.s \o <<" ","o","r","d","e","r"," ","b","y"," ">> \o order.s
                 \o <<" ","l","i","m","i","t"," ">> \o str_int(limit) \o <<" ","o","f","f","s","e","t"," ">> \o str_int(offset)
    IN  IF where_clause = Omitted \/ order = Omitted
        THEN [ret |-> Raise("TypeError"), executed |-> <<>>]
        ELSE _execute(query, table, PyTuple(<<>>))

delete_rows(table, where_clause) ==
    _execute(<<"d","e","l","e","t","e"," ","f","r","o","m"," ","{","t","a","b","l","e","}"," ","w","h","e","r","e"," ">> \o where_clause.s, table, PyTuple(<<>>))

(* The calls: the tables, rows and clauses of the tests *)

RowTables == {PyStr(<<"T","e","s","t","T","a","b","l","e">>), PyStr(<<"_","i","n","v","a","l","i","d"," ","t","a","b","l","e"," ","n","a","m","e","_">>)}

person_fields == PyTuple(<<PyStr(<<"i","d">>), PyStr(<<"n","a","m","e">>), PyStr(<<"a","g","e">>)>>)

people_data ==
    <<PyTuple(<<PyStr(<<"a","1","9","c","9","z">>), PyStr(<<"J","o","e">>), PyInt(30)>>),
      PyTuple(<<PyStr(<<"b","0","1","d","0","y">>), PyStr(<<"M","i","a">>), PyInt(27)>>),
      PyTuple(<<PyStr(<<"c","5","5","x","3","x">>), PyStr(<<"B","u","d">>), PyInt(26)>>)>>

RowValues ==
    {PyTuple(t) : t \in TuplesUpTo({PyStr(<<"J","o","e">>), PyStr(<<"M","i","a">>), PyInt(30)}, Len(person_fields.items))}

RowLists ==
    {PyTuple(t) : t \in TuplesUpTo(SeqRange(people_data), Len(people_data))}
    \cup {PyTuple(<<PyTuple(<<PyStr(<<"a","1","9","c","9","z">>)>>), PyTuple(<<PyStr(<<"b","0","1","d","0","y">>)>>)>>)}

RowColumns == {PyTuple(<<>>), person_fields}

\* clauses made by build_query_clauses, as the fixtures make them
BuiltClauses ==
    {build_query_clauses(w, o, l, f) :
        w \in {<<>>, <<"n","a","m","e"," ","="," ","'","M","i","a","'">>, <<"a","g","e"," ","<"," ","2","9">>, <<"i","n","j","e","c","t"," ","S","Q","L"," ","c","o","d","e">>},
        o \in {<<>>, <<"a","g","e"," ","d","e","s","c">>}, l \in {0, 1}, f \in {0, 1}}

\* clause strings written by the caller
RawClauses == {<<"i","n","j","e","c","t"," ","S","Q","L"," ","c","o","d","e">>, <<"n","a","m","e"," ","="," ","'","M","i","a","'">>, <<"1"," ","="," ","1",";"," ","d","r","o","p"," ","t","a","b","l","e"," ","T","e","s","t","T","a","b","l","e">>}

Clauses == {PyStr(c) : c \in BuiltClauses \cup RawClauses}

Assignments ==
    {PyDict(<<<<PyStr(<<"a","g","e">>), PyStr(<<"a","g","e"," ","+"," ","1">>)>>>>),
     PyDict(<<<<PyStr(<<"a","g","e">>), PyStr(<<"3","0">>)>>>>),
     PyDict(<<<<PyStr(<<"a","g","e">>), PyInt(31)>>>>),
     PyDict(<<<<PyStr(<<"n","a","m","e">>), PyStr(<<"'","J","o","e","'">>)>>, <<PyStr(<<"a","g","e">>), PyInt(30)>>>>),
     PyDict(<<<<PyStr(<<"n","a","m","e">>), PyStr(<<"'","M","i","a","'">>)>>, <<PyStr(<<"a","g","e">>), PyInt(30)>>>>)}

Orders == {PyStr(<<"i","d">>), PyStr(<<"a","g","e"," ","d","e","s","c">>)}

ClauseOps == {"get_row", "get_rows", "delete_rows"}

InitRows ==
    /\ pc = "call"
    /\ \/ /\ op = "add_row"
          /\ args \in [table : RowTables, values : RowValues, columns : RowColumns]
       \/ /\ op = "add_rows"
          /\ args \in [table : RowTables, valuelists : RowLists, columns : RowColumns]
       \/ /\ op \in ClauseOps
          /\ args \in [table : RowTables, where_clause : Clauses]
       \/ /\ op = "update_rows"
          /\ args \in [table : RowTables, values : Assignments, where_clause : Clauses,
                       order : Orders, limit : {-1, 1}, offset : {0, 1}]
    /\ ret = Pending
    /\ executed = <<>>
    /\ sql = NotUsed /\ sqlite = NotUsed

Handed(outcome) ==
    /\ ret' = outcome.ret
    /\ executed' = outcome.executed
    /\ pc' = "done"
    /\ UNCHANGED <<op, args, sql, sqlite>>

AddRow ==
    /\ pc = "call" /\ op = "add_row"
    /\ Handed(add_row(args.table, args.values, args.columns))

AddRows ==
    /\ pc = "call" /\ op = "add_rows"
    /\ Handed(add_rows(args.table, args.valuelists, args.columns))

GetRow ==
    /\ pc = "call" /\ op = "get_row"
    /\ Handed(get_row(args.table, args.where_clause))

GetRows ==
    /\ pc = "call" /\ op = "get_rows"
    /\ Handed(get_rows(args.table, args.where_clause))

UpdateRows ==
    /\ pc = "call" /\ op = "update_rows"
    /\ Handed(update_rows(args.table, args.values, args.where_clause,
                          args.order, args.limit, args.offset))

DeleteRows ==
    /\ pc = "call" /\ op = "delete_rows"
    /\ Handed(delete_rows(args.table, args.where_clause))

NextRows ==
    \/ AddRow
    \/ AddRows
    \/ GetRow
    \/ GetRows
    \/ UpdateRows
    \/ DeleteRows

SpecRows == InitRows /\ [][NextRows]_vars

(* Claims about the row operations' statements *)

RowOutcome(o, a) ==
    CASE o = "add_row" -> add_row(a.table, a.values, a.columns)
      [] o = "add_rows" -> add_rows(a.table, a.valuelists, a.columns)
      [] o = "update_rows" -> update_rows(a.table, a.values, a.where_clause,
                                          a.order, a.limit, a.offset)

\* the same call with every supplied value replaced by 0: same table, same
\* field names, same number of values, same clause
Blank(row) == PyTuple([i \in 1..Len(row.items) |-> PyInt(0)])

BlankValues(o, a) ==
    CASE o = "add_row" -> [a EXCEPT !.values = Blank(a.values)]
      [] o = "add_rows" ->
            [a EXCEPT !.valuelists = PyTuple([i \in 1..Len(a.valuelists.items) |->
                                                Blank(a.valuelists.items[i])])]
      [] o = "update_rows" ->
            [a EXCEPT !.values = PyDict([i \in 1..Len(a.values.items) |->
                                            <<a.values.items[i][1], PyInt(0)>>])]

QueryTexts(statements) == [i \in 1..Len(statements) |-> statements[i].query]

\* C15: the query text add_row, add_rows and update_rows hand to the driver
\* does not depend on the values supplied: it is the text the same call hands
\* over when every value is replaced by another one.
C15_ValuesNotInQueryText ==
    pc = "done" /\ op \in {"add_row", "add_rows", "update_rows"} =>
        QueryTexts(executed) = QueryTexts(RowOutcome(op, BlankValues(op, args)).executed)

\* C16: a clause string that is not an output of build_query_clauses is not
\* spliced into a statement: get_row, get_rows, update_rows and delete_rows
\* hand nothing to the driver for it.
C16_ClauseFromBuilderOnly ==
    /\ pc = "done" /\ op \in ClauseOps \cup {"update_rows"}
    /\ args.where_clause.s \notin BuiltClauses
    => executed = <<>>

\* the number of places where the text sub occurs in s
CountSub(s, sub) ==
    Cardinality({i \in 1..(Len(s) - Len(sub) + 1) : SubSeq(s, i, i + Len(sub) - 1) = sub})

StatementHead(o) == IF o = "delete_rows" THEN <<"d","e","l","e","t","e"," ","f","r","o","m"," ">> ELSE <<"s","e","l","e","c","t"," ","*"," ","f","r","o","m"," ">>

\* C17: for a clause c made by build_query_clauses with a condition, get_row,
\* get_rows and delete_rows execute "select * from <table>" or
\* "delete from <table>" followed directly by c, and the statement contains
\* the word "where" exactly once.
C17_ClauseSplicedVerbatim ==
    /\ pc = "done" /\ op \in ClauseOps
    /\ args.where_clause.s \in BuiltClauses
    /\ CountSub(args.where_clause.s, <<"w","h","e","r","e">>) = 1
    /\ args.table = PyStr(<<"T","e","s","t","T","a","b","l","e">>)
    => /\ Len(executed) = 1
       /\ \E sep \in {<<>>, <<" ">>} :
            executed[1].query = StatementHead(op) \o args.table.s \o sep \o args.where_clause.s
       /\ CountSub(executed[1].query, <<"w","h","e","r","e">>) = 1

-----------------------------------------------------------------------------
(* The sqlite3 driver as the controller uses it: one database file, the    *)
(* connections opened on it, and the statements the controller executes    *)

Connection(id) == [t |-> "Connection", id |-> id]
Cursor(id) == [t |-> "Cursor", connection |-> id]
NoTransaction == [t |-> "no transaction"]

\* the columns of the tables of the database
TableColumns == [i \in 1..Len(person_fields.items) |-> person_fields.items[i].s]

\* what connection id reads: its own uncommitted changes, or the file
View(db, id) ==
    IF db.connections[id].pending # NoTransaction THEN db.connections[id].pending
    ELSE db.file

\* another connection holds uncommitted changes, so the file is locked
Locked(db, id) ==
    \E j \in 1..Len(db.connections) :
        j # id /\ db.connections[j].open /\ db.connections[j].pending # NoTransaction

sqlite3_connect(db) ==
    [db EXCEPT !.connections = Append(@, [open |-> TRUE, pending |-> NoTransaction])]

\* connection.close(): uncommitted changes are rolled back
connection_close(db, id) ==
    [db EXCEPT !.connections[id] = [open |-> FALSE, pending |-> NoTransaction]]

connection_commit(db, id) ==
    IF ~db.connections[id].open THEN [ret |-> Raise("ProgrammingError"), db |-> db]
    ELSE [ret |-> Return(PyNone),
          db |-> [file |-> View(db, id),
                  connections |-> [db.connections EXCEPT ![id].pending = NoTransaction]]]

connection_cursor(db, id) ==
    IF ~db.connections[id].open THEN Raise("ProgrammingError") ELSE Return(Cursor(id))

\* a table name as the driver reads it: letters, digits and underscores
IdentifierChars(s) ==
    s # <<>> /\ \A i \in 1..Len(s) :
        IsIn(s[i], LowerLetters) \/ IsIn(s[i], UpperLetters) \/ IsIn(s[i], DigitChars) \/ s[i] = "_"

starts_with(s, prefix) == Len(s) >= Len(prefix) /\ SubSeq(s, 1, Len(prefix)) = prefix

\* the index where sub first occurs in s, 0 if it does not
find_sub(s, sub) ==
    LET hits == {i \in 1..(Len(s) - Len(sub) + 1) : SubSeq(s, i, i + Len(sub) - 1) = sub}
    IN  IF hits = {} THEN 0 ELSE CHOOSE i \in hits : \A j \in hits : i <= j

\* s.split(sep) for a one-character separator
RECURSIVE str_split(_, _)
str_split(s, sep) ==
    LET i == find_first(s, {sep})
    IN  IF i = 0 THEN <<s>>
        ELSE <<SubSeq(s, 1, i - 1)>> \o str_split(SubSeq(s, i + 1, Len(s)), sep)

\* The statements the driver is given here: "select * from <table>",
\* "delete from <table>" and
\* "insert into <table>[(<columns>)] values (?,...)[;]".  Any other text is
\* a syntax error: the braces left in a statement, and the doubled keyword
\* of "update <table> set ... where where ...".
parse_statement(q) ==
    LET select == <<"s","e","l","e","c","t"," ","*"," ","f","r","o","m"," ">>
        delete == <<"d","e","l","e","t","e"," ","f","r","o","m"," ">>
        insert == <<"i","n","s","e","r","t"," ","i","n","t","o"," ">>
        rest == SubSeq(q, Len(insert) + 1, Len(q))
        v == find_sub(rest, <<" ","v","a","l","u","e","s"," ","(">>)
        target == SubSeq(rest, 1, v - 1)
        p == find_first(target, {"("})
        e == find_first(target, {" ", "("})
        name == IF e = 0 THEN target ELSE SubSeq(target, 1, e - 1)
        gap == IF e = 0 THEN <<>>
               ELSE SubSeq(target, e, IF p = 0 THEN Len(target) ELSE p - 1)
        marks == SubSeq(rest, v + Len(<<" ","v","a","l","u","e","s"," ","(">>), Len(rest))
        close == find_first(marks, {")"})
        inner == SubSeq(marks, 1, close - 1)
        tail == SubSeq(marks, close + 1, Len(marks))
    IN  IF starts_with(q, select)
        THEN (IF IdentifierChars(SubSeq(q, Len(select) + 1, Len(q)))
              THEN [kind |-> "select", table |-> SubSeq(q, Len(select) + 1, Len(q))]
              ELSE [kind |-> "syntax error"])
        ELSE IF starts_with(q, delete)
        THEN (IF IdentifierChars(SubSeq(q, Len(delete) + 1, Len(q)))
              THEN [kind |-> "delete", table |-> SubSeq(q, Len(delete) + 1, Len(q))]
              ELSE [kind |-> "syntax error"])
        ELSE IF starts_with(q, insert) /\ v > 0 /\ close > 0 /\ tail \in {<<>>, <<";">>}
                /\ inner # <<>> /\ \A m \in SeqRange(str_split(inner, ",")) : m = <<"?">>
                /\ (p = 0 \/ target[Len(target)] = ")")
                /\ IdentifierChars(name) /\ \A i \in 1..Len(gap) : gap[i] = " "
        THEN [kind |-> "insert",
              table |-> name,
              columns |-> IF p = 0 THEN TableColumns
                          ELSE str_split(SubSeq(target, p + 1, Len(target) - 1), ","),
              placeholders |-> Len(str_split(inner, ","))]
        ELSE [kind |-> "syntax error"]

\* the values one execution binds: the items of a tuple, the characters of a
\* str; anything else is not a sequence of parameters
bindings(values) ==
    IF values.t \in {"tuple", "list"} THEN Return(values.items)
    ELSE IF values.t = "str" THEN Return([i \in 1..Len(values.s) |-> PyStr(<<values.s[i]>>)])
    ELSE Raise("ProgrammingError")

\* binding one row to an insert statement: the stored row, or ProgrammingError
\* for a wrong number of values or a value that is not a scalar
bind_row(stmt, values) ==
    LET bound == bindings(values)
    IN  IF bound.kind = "raise" THEN bound
        ELSE IF Len(bound.val) # stmt.placeholders THEN Raise("ProgrammingError")
        ELSE IF \E i \in 1..Len(bound.val) :
                    bound.val[i].t \notin {"str", "int", "bool", "NoneType", "bytes"}
             THEN Raise("ProgrammingError")
        ELSE Return(PyTuple([c \in 1..Len(TableColumns) |->
                IF \E i \in 1..Len(stmt.columns) : stmt.columns[i] = TableColumns[c]
                THEN bound.val[CHOOSE i \in 1..Len(stmt.columns) : stmt.columns[i] = TableColumns[c]]
                ELSE PyNone]))

\* the rows of an executemany are inserted in order up to the first one that
\* cannot be bound
RECURSIVE insert_rows(_, _, _, _, _)
insert_rows(db, id, stmt, rows, i) ==
    IF i > Len(rows) THEN [ret |-> Return(Cursor(id)), db |-> db]
    ELSE LET row == bind_row(stmt, rows[i])
         IN  IF row.kind = "raise" THEN [ret |-> row, db |-> db]
             ELSE IF Locked(db, id) THEN [ret |-> Raise("OperationalError"), db |-> db]
             ELSE insert_rows(
                    [db EXCEPT !.connections[id].pending =
                        [View(db, id) EXCEPT ![stmt.table] = Append(@, row.val)]],
                    id, stmt, rows, i + 1)

\* cursor.execute(query, values) and cursor.executemany(query, valuelists) of
\* a cursor of connection id: the outcome and the database afterwards
cursor_execute(db, id, statement) ==
    LET stmt == parse_statement(statement.query)
        rows == IF statement.many THEN bindings(statement.values)
                ELSE Return(<<statement.values>>)
    IN  IF ~db.connections[id].open THEN [ret |-> Raise("ProgrammingError"), db |-> db]
        ELSE IF stmt.kind = "syntax error" THEN [ret |-> Raise("OperationalError"), db |-> db]
        ELSE IF stmt.table \notin DOMAIN View(db, id)
             THEN [ret |-> Raise("OperationalError"), db |-> db]
        ELSE IF stmt.kind = "select" THEN [ret |-> Return(Cursor(id)), db |-> db]
        ELSE IF stmt.kind = "delete"
             THEN (IF Locked(db, id) THEN [ret |-> Raise("OperationalError"), db |-> db]
                   ELSE [ret |-> Return(Cursor(id)),
                         db |-> [db EXCEPT !.connections[id].pending =
                                    [View(db, id) EXCEPT ![stmt.table] = <<>>]]])
        ELSE IF \/ \E i \in 1..Len(stmt.columns) : stmt.columns[i] \notin SeqRange(TableColumns)
                \/ Len(stmt.columns) # stmt.placeholders
             THEN [ret |-> Raise("OperationalError"), db |-> db]
        ELSE IF rows.kind = "raise" THEN [ret |-> rows, db |-> db]
        ELSE insert_rows(db, id, stmt, rows.val, 1)

\* cursor.fetchall() after a select: the rows connection id reads in the
\* table of the statement
cursor_fetchall(db, id, statement) ==
    PyTuple(View(db, id)[parse_statement(statement.query).table])

-----------------------------------------------------------------------------
(* SqlController with its connection, its cursor and the database *)

Self == [t |-> "SqlController"]
NoArgs == <<>>

\* the result of a method: what it returns or raises, the statements it
\* handed to the cursor, the controller and the database afterwards
Result(outcome, statements, s, db) ==
    [ret |-> outcome, executed |-> statements, sql |-> s, db |-> db]

__init__ == [connection |-> PyNone, cursor |-> PyNone]

connect_db(s, db) ==
    LET opened == sqlite3_connect(db)
        connection == Connection(Len(opened.connections))
    IN  Result(Return(connection), <<>>, [s EXCEPT !.connection = connection], opened)

get_cursor(s, db) ==
    IF s.connection = PyNone THEN Result(Raise("AttributeError"), <<>>, s, db)
    ELSE LET cursor == connection_cursor(db, s.connection.id)
         IN  IF cursor.kind = "raise" THEN Result(cursor, <<>>, s, db)
             ELSE Result(cursor, <<>>, [s EXCEPT !.cursor = cursor.val], db)

save_db(s, db) ==
    IF s.connection = PyNone THEN Result(Raise("AttributeError"), <<>>, s, db)
    ELSE LET committed == connection_commit(db, s.connection.id)
         IN  Result(committed.ret, <<>>, s, committed.db)

disconnect_db(s, db) ==
    LET cleared == [s EXCEPT !.cursor = PyNone]
    IN  IF s.connection = PyNone THEN Result(Raise("AttributeError"), <<>>, cleared, db)
        ELSE Result(Return(PyNone), <<>>, [cleared EXCEPT !.connection = PyNone],
                    connection_close(db, s.connection.id))

__enter__(s, db) ==
    LET connected == connect_db(s, db)
        with_cursor == get_cursor(connected.sql, connected.db)
    IN  IF with_cursor.ret.kind = "raise" THEN with_cursor
        ELSE Result(Return(Self), <<>>, with_cursor.sql, with_cursor.db)

__exit__(s, db) ==
    LET saved == save_db(s, db)
    IN  IF saved.ret.kind = "raise" THEN saved
        ELSE disconnect_db(saved.sql, saved.db)

\* the driver call that ends _execute and _executemany: prepared is what the
\* method does before it
on_cursor(s, db, prepared) ==
    IF prepared.executed = <<>> THEN Result(prepared.ret, <<>>, s, db)
    ELSE IF s.cursor = PyNone THEN Result(Raise("AttributeError"), <<>>, s, db)
    ELSE LET answer == cursor_execute(db, s.cursor.connection, prepared.executed[1])
         IN  Result(answer.ret, prepared.executed, s, answer.db)

\* has_table, given what its _execute call does before the driver is reached
has_table(s, db, prepared) ==
    LET tried == on_cursor(s, db, prepared)
    IN  IF tried.ret = Raise("OperationalError")
        THEN [tried EXCEPT !.ret = Return(PyBool(FALSE))]
        ELSE IF tried.ret.kind = "raise" THEN tried
        ELSE [tried EXCEPT !.ret = Return(PyBool(TRUE))]

\* get_all_rows, given what its _execute call does before the driver is
\* reached.  The query is a plain string, not an f-string, so that format()
\* turns its doubled braces into single ones.
get_all_rows_query == <<"s","e","l","e","c","t"," ","*"," ","f","r","o","m"," ","{","{","t","a","b","l","e","}","}">>

get_all_rows(s, db, prepared) ==
    CHOOSE result \in
        {IF tried.ret.kind = "raise" \/ tried.executed = <<>> THEN tried
         ELSE [tried EXCEPT !.ret =
                Return(cursor_fetchall(tried.db, s.cursor.connection, tried.executed[1]))] :
         tried \in {on_cursor(s, db, prepared)}} : TRUE

\* delete_all_rows up to the statement it hands to the cursor
delete_all_rows(table) == _execute(<<"d","e","l","e","t","e"," ","f","r","o","m"," ","{","{","t","a","b","l","e","}","}">>, table, PyTuple(<<>>))

(* The calls *)

SessionTables ==
    {PyStr(<<"T","e","s","t","T","a","b","l","e">>), PyStr(<<"N","o","T","a","b","l","e">>), PyStr(<<"_","i","n","v","a","l","i","d"," ","t","a","b","l","e"," ","n","a","m","e","_">>), PyNone}

FirstRows(n) == PyTuple(SubSeq(people_data, 1, n))

SessionRowLists == {FirstRows(n) : n \in 1..Len(people_data)}

InsertQuery == <<"i","n","s","e","r","t"," ","i","n","t","o"," ","{","t","a","b","l","e","}"," ","v","a","l","u","e","s"," ","(","?",",","?",",","?",")">>

\* Each call with what it does before the driver is reached, which depends on
\* its arguments only.
ExecuteCalls ==
    {[args |-> a, prepared |-> _execute(a.query, a.table, a.values)] :
        a \in [query : {InsertQuery}, table : SessionTables, values : {people_data[1]}]}

ExecuteManyCalls ==
    {[args |-> a, prepared |-> _executemany(a.query, a.table, a.valuelists)] :
        a \in [query : {InsertQuery}, table : SessionTables,
               valuelists : {PyTuple(<<>>), FirstRows(2)}]}

HasTableCalls ==
    {[args |-> a, prepared |-> _execute(<<"s","e","l","e","c","t"," ","*"," ","f","r","o","m"," ","{","t","a","b","l","e","}">>, a.name, PyTuple(<<>>))] :
        a \in [name : SessionTables]}

AddRowCalls ==
    {[args |-> a, prepared |-> add_row(a.table, a.values, a.columns)] :
        a \in [table : RowTables, values : {people_data[1]}, columns : RowColumns]}

AddRowsCalls ==
    {[args |-> a, prepared |-> add_rows(a.table, a.valuelists, a.columns)] :
        a \in [table : RowTables, valuelists : SessionRowLists, columns : RowColumns]}

GetAllRowsCalls ==
    {[args |-> a, prepared |-> _execute(get_all_rows_query, a.table, PyTuple(<<>>))] :
        a \in [table : RowTables]}

DeleteAllRowsCalls ==
    {[args |-> a, prepared |-> delete_all_rows(a.table)] : a \in [table : RowTables]}

age_increment == PyDict(<<<<PyStr(<<"a","g","e">>), PyStr(<<"a","g","e"," ","+"," ","1">>)>>>>)

younger_clause == PyStr(build_query_clauses(<<"a","g","e"," ","<"," ","2","9">>, <<>>, 0, 0))

\* update_rows as the tests call it, with and without the clause, and with
\* the order the signature asks for; limit and offset take their defaults
UpdateRowsCalls ==
    {[args |-> a,
      prepared |-> update_rows(a.table, a.values, a.where_clause, a.order, a.limit, a.offset)] :
        a \in [table : {PyStr(<<"T","e","s","t","T","a","b","l","e">>)}, values : {age_increment},
               where_clause : {Omitted, younger_clause}, order : {Omitted, PyStr(<<"i","d">>)},
               limit : {-1}, offset : {0}]}

WithinBounds(db) ==
    /\ Len(db.connections) <= MaxConnections
    /\ \A name \in DOMAIN db.file : Len(db.file[name]) <= MaxRows
    /\ \A id \in 1..Len(db.connections) : \A name \in DOMAIN db.file :
            Len(View(db, id)[name]) <= MaxRows

InitController ==
    /\ pc = "done"
    /\ op = "__init__"
    /\ args = [database |-> PyStr(<<"t","e","s","t","D","a","t","a","b","a","s","e",".","d","b">>)]
    /\ ret = Return(PyNone)
    /\ executed = <<>>
    /\ sql = __init__
    /\ sqlite = [file |-> [name \in {<<"T","e","s","t","T","a","b","l","e">>} |-> <<>>], connections |-> <<>>]

Call(o, a, result) ==
    \E r \in {result} :
        /\ pc = "done"
        /\ WithinBounds(r.db)
        /\ op' = o
        /\ args' = a
        /\ ret' = r.ret
        /\ executed' = r.executed
        /\ sql' = r.sql
        /\ sqlite' = r.db
        /\ UNCHANGED pc

Enter == Call("__enter__", NoArgs, __enter__(sql, sqlite))

Exit == Call("__exit__", NoArgs, __exit__(sql, sqlite))

ConnectDb == Call("connect_db", NoArgs, connect_db(sql, sqlite))

DisconnectDb == Call("disconnect_db", NoArgs, disconnect_db(sql, sqlite))

SaveDb == Call("save_db", NoArgs, save_db(sql, sqlite))

GetCursor == Call("get_cursor", NoArgs, get_cursor(sql, sqlite))

Execute ==
    \E c \in ExecuteCalls : Call("_execute", c.args, on_cursor(sql, sqlite, c.prepared))

ExecuteMany ==
    \E c \in ExecuteManyCalls : Call("_executemany", c.args, on_cursor(sql, sqlite, c.prepared))

HasTable ==
    \E c \in HasTableCalls : Call("has_table", c.args, has_table(sql, sqlite, c.prepared))

SessionAddRow ==
    \E c \in AddRowCalls : Call("add_row", c.args, on_cursor(sql, sqlite, c.prepared))

SessionAddRows ==
    \E c \in AddRowsCalls : Call("add_rows", c.args, on_cursor(sql, sqlite, c.prepared))

GetAllRows ==
    \E c \in GetAllRowsCalls :
        Call("get_all_rows", c.args, get_all_rows(sql, sqlite, c.prepared))

DeleteAllRows ==
    \E c \in DeleteAllRowsCalls :
        Call("delete_all_rows", c.args, on_cursor(sql, sqlite, c.prepared))

SessionUpdateRows ==
    \E c \in UpdateRowsCalls : Call("update_rows", c.args, on_cursor(sql, sqlite, c.prepared))

NextController ==
    \/ Enter
    \/ Exit
    \/ ConnectDb
    \/ DisconnectDb
    \/ SaveDb
    \/ GetCursor
    \/ Execute
    \/ ExecuteMany
    \/ HasTable
    \/ SessionAddRow
    \/ SessionAddRows
    \/ GetAllRows
    \/ DeleteAllRows
    \/ SessionUpdateRows

SpecController == InitController /\ [][NextController]_vars

\* C14: create_table with a table name that does not match [A-Za-z0-9_]+ (and
\* valid columns) raises InvalidSqlNameError and executes nothing, so that no
\* table is created.
C14_InvalidTableNameError ==
    /\ pc = "done" /\ op = "create_table"
    /\ ~IdentifierGrammar(args.name.s)
    /\ \A i \in 1..Len(args.columns) :
            TypeIsValid(args.columns[i]) /\ ConstraintsAreValid(args.columns[i])
    => ret = Raise("InvalidSqlNameError") /\ executed = <<>>

(* Claims about the controller *)

TableOf(o, a) == IF o = "has_table" THEN a.name ELSE a.table

ExecutingOps == {"_execute", "_executemany", "has_table", "add_row", "add_rows"}

\* C13: a call that goes through _execute or _executemany with a table name
\* that is not a string matching [A-Za-z0-9_]+ raises an error, hands no
\* statement to the driver and leaves the database as it was; so a statement
\* reaches the driver only after the check of the table name has passed.
C13_TableCheckedBeforeDriver ==
    [][ /\ op' \in ExecutingOps
        /\ ~(TableOf(op', args').t = "str" /\ IdentifierGrammar(TableOf(op', args').s))
        => ret'.kind = "raise" /\ executed' = <<>> /\ sqlite' = sqlite ]_vars

C13_Witness ==
    /\ op = "_executemany"
    /\ args.table = PyStr(<<"_","i","n","v","a","l","i","d"," ","t","a","b","l","e"," ","n","a","m","e","_">>)
    /\ args.valuelists = FirstRows(2)
    /\ sql.cursor # PyNone
    /\ ret = Raise("InvalidAlphanumericError")
    /\ executed = <<>>

\* the state of an object that has no attribute of that name
NoAttribute == [t |-> "no attribute"]

\* C18: a freshly constructed controller has no connection and no cursor
\* attribute; after __enter__ it holds an open connection and a cursor of that
\* connection; after __exit__ and after disconnect_db it again has no
\* connection and no cursor attribute.
C18_ConnectionOnlyInContext ==
    /\ op = "__init__" => sql.connection = NoAttribute /\ sql.cursor = NoAttribute
    /\ op = "__enter__" /\ ret.kind = "return" =>
            /\ sql.connection.t = "Connection"
            /\ sqlite.connections[sql.connection.id].open
            /\ sql.cursor = Cursor(sql.connection.id)
    /\ op \in {"__exit__", "disconnect_db"} /\ ret.kind = "return" =>
            sql.connection = NoAttribute /\ sql.cursor = NoAttribute

Closed == [open |-> FALSE, pending |-> NoTransaction]

\* C19: what the database file holds changes only through save_db: save_db
\* writes the connection's changes to the file; disconnect_db closes the
\* connection and drops its unsaved changes; __exit__ saves and then
\* disconnects, so that the file holds every change made in the context and
\* no connection is left with unsaved changes; no other call changes the
\* file; and a connection opened afterwards reads exactly what the file holds.
C19_DurableOnlyThroughSave ==
    [][ /\ op' = "save_db" /\ ret'.kind = "return" =>
                sqlite'.file = View(sqlite, sql.connection.id)
        /\ op' = "disconnect_db" /\ ret'.kind = "return" =>
                /\ sqlite'.file = sqlite.file
                /\ sqlite'.connections[sql.connection.id] = Closed
        /\ op' = "__exit__" /\ ret'.kind = "return" =>
                /\ sqlite'.file = View(sqlite, sql.connection.id)
                /\ sqlite'.connections[sql.connection.id] = Closed
                /\ \A id \in 1..Len(sqlite'.connections) :
                        sqlite'.connections[id].pending = NoTransaction
        /\ op' \in {"__enter__", "connect_db"} /\ ret'.kind = "return" =>
                View(sqlite', sql'.connection.id) = sqlite.file
        /\ op' \notin {"save_db", "__exit__"} => sqlite'.file = sqlite.file ]_vars

\* C20: add_rows with n >= 1 rows of k values each, with or without the k
\* field names, on a table of k columns executes an insert statement with k
\* placeholders and leaves the table holding its previous rows followed by
\* those n rows.
C20_AddRowsInsertsEveryRow ==
    [][ /\ op' = "add_rows"
        /\ args'.table = PyStr(<<"T","e","s","t","T","a","b","l","e">>)
        /\ sql.cursor # PyNone
        /\ ~Locked(sqlite, sql.cursor.connection)
        => /\ ret'.kind = "return"
           /\ Len(executed') = 1
           /\ CountChar(executed'[1].query, "?") = Len(TableColumns)
           /\ View(sqlite', sql.cursor.connection)[<<"T","e","s","t","T","a","b","l","e">>]
                = View(sqlite, sql.cursor.connection)[<<"T","e","s","t","T","a","b","l","e">>] \o args'.valuelists.items ]_vars

\* the cursor the controller holds, on a connection that is still open
CursorOpen ==
    /\ sql.cursor # PyNone
    /\ sqlite.connections[sql.cursor.connection].open

\* C21: on the existing table, with an open cursor, get_all_rows executes
\* "select * from <table>" and returns exactly the rows the connection reads
\* in the table; delete_all_rows (the database not being locked by another
\* connection) executes "delete from <table>" and leaves the table without
\* rows.
C21_AllRowsOfTheTable ==
    pc = "done" /\ args = [table |-> PyStr(<<"T","e","s","t","T","a","b","l","e">>)] /\ CursorOpen =>
        /\ op = "get_all_rows" =>
                /\ QueryTexts(executed) = <<<<"s","e","l","e","c","t"," ","*"," ","f","r","o","m"," ","T","e","s","t","T","a","b","l","e">>>>
                /\ ret = Return(PyTuple(View(sqlite, sql.cursor.connection)[<<"T","e","s","t","T","a","b","l","e">>]))
        /\ (op = "delete_all_rows" /\ ~Locked(sqlite, sql.cursor.connection)) =>
                /\ QueryTexts(executed) = <<<<"d","e","l","e","t","e"," ","f","r","o","m"," ","T","e","s","t","T","a","b","l","e">>>>
                /\ ret.kind = "return"
                /\ View(sqlite, sql.cursor.connection)[<<"T","e","s","t","T","a","b","l","e">>] = <<>>

\* the row with its age incremented, as age_increment assigns it
Older(row) == PyTuple([row.items EXCEPT ![3] = PyInt(@.n + 1)])

\* the rows the clause of an update_rows call selects: every row without a
\* clause, the rows younger than 29 with younger_clause
Selects(where_clause, row) == where_clause = Omitted \/ row.items[3].n < 29

\* C22: update_rows on the existing table, with an open cursor and the
\* database not locked by another connection, returns and applies the
\* assignments to the rows its clause selects (every row when there is no
\* clause) and leaves every other row as it was.
C22_UpdateRowsFrame ==
    [][op' = "update_rows" /\ CursorOpen /\ ~Locked(sqlite, sql.cursor.connection) =>
        LET before == View(sqlite, sql.cursor.connection)[args'.table.s]
            after == View(sqlite', sql.cursor.connection)[args'.table.s]
        IN  /\ ret'.kind = "return"
            /\ Len(after) = Len(before)
            /\ \A i \in 1..Len(before) :
                after[i] = IF Selects(args'.where_clause, before[i])
                           THEN Older(before[i]) ELSE before[i]]_vars

(* Claims about the arguments of the checks *)

\* C23: validate_alphanum, validate_type and validate_constraint called with
\* an argument that is not a string raise TypeError, never their own
\* validation error, and validate_iterable called with a scalar that cannot
\* be iterated (a number, a boolean, None) raises TypeError.
C23_NonStringIsTypeError ==
    /\ pc = "done" /\ op \in {"validate_alphanum", "validate_type", "validate_constraint"}
            /\ args.name \in NonStrings
        => ret = Raise("TypeError")
    /\ pc = "done" /\ op = "validate_iterable" /\ args.var.t \in {"int", "bool", "NoneType"}
        => ret = Raise("TypeError")

C23_Witness ==
    /\ pc = "done" /\ op = "validate_constraint" /\ args.name = PyInt(3)
    /\ ret = Raise("TypeError")

\* C24: a cursor the controller holds is a cursor of the connection the
\* controller holds, and every connection the controller has opened and no
\* longer holds is closed.
C24_CursorOfHeldConnection ==
    /\ sql.cursor # PyNone =>
            sql.connection # PyNone /\ sql.cursor.connection = sql.connection.id
    /\ \A id \in 1..Len(sqlite.connections) :
            sqlite.connections[id].open => sql.connection = Connection(id)

\* the raising check that goes with each boolean check, on the same argument
RaisingCheck(o, a) ==
    CASE o = "valid_alphanum" -> validate_alphanum(a.name, a.underscore, a.space)
      [] o = "valid_name" -> validate_table_name(a.name)
      [] o = "valid_type" -> validate_type(a.name)
      [] o = "valid_constraint" -> validate_constraint(a.name)
      [] o = "valid_comparison_operator" -> validate_comparison_operator(a.name)
      [] o = "valid_bool_operator" -> validate_bool_operator(a.name)

\* C25: each boolean check returns, on strings and non-strings alike, and it
\* returns False exactly when its raising counterpart raises on the same
\* argument (valid_name going with validate_table_name and
\* validate_field_name).
C25_ChecksAgree ==
    pc = "done" /\ op \in {"valid_alphanum", "valid_name"} \cup KeywordCheckOps =>
        /\ ret.kind = "return"
        /\ ret = Return(PyBool(FALSE)) <=> RaisingCheck(op, args).kind = "raise"
        /\ op = "valid_name" =>
            (ret = Return(PyBool(FALSE)) <=> validate_field_name(args.name).kind = "raise")

\* C26: the empty string is not a valid identifier under any combination of
\* the flags: valid_alphanum and valid_name return False for it,
\* validate_alphanum, validate_table_name and validate_field_name raise their
\* error, and _execute hands the cursor a statement only for a table name
\* that is a string of at least one character.
C26_EmptyNameRejected ==
    /\ pc = "done" /\ op \in AlphanumOps \cup NameOps /\ args.name = PyStr(<<>>) =>
            ret = CASE op \in {"valid_alphanum", "valid_name"} -> Return(PyBool(FALSE))
                    [] op = "validate_alphanum" -> Raise("InvalidAlphanumericError")
                    [] op = "validate_table_name" -> Raise("InvalidSqlNameError")
                    [] op = "validate_field_name" -> Raise("InvalidSqlOperandError")
    /\ pc = "done" /\ op = "_execute" =>
            /\ args.table = PyStr(<<>>) =>
                    ret = Raise("InvalidAlphanumericError") /\ executed = <<>>
            /\ executed # <<>> => args.table \notin NonStrings /\ Len(args.table.s) >= 1

C26_Witness ==
    /\ pc = "done" /\ op = "_execute" /\ args.table = PyStr(<<>>)
    /\ ret = Raise("InvalidAlphanumericError")

=============================================================================
